---------------------------- MODULE Spec2Model ----------------------------
(***************************************************************************)
(* Model of lib/index.js of mdast-util-gfm-autolink-literal-lemmy: the     *)
(* transform that turns bare URLs, www domains, lemmy community and user   *)
(* mentions and email addresses found in text nodes into link nodes.       *)
(*                                                                         *)
(* A string is a sequence of one-character strings.  An offset into a      *)
(* string is 0-based, as in the JavaScript; Sequences are 1-based, so the  *)
(* character at offset k of s is s[k + 1].                                 *)
(***************************************************************************)
EXTENDS Integers, Sequences, FiniteSets, TLC

VARIABLES
    tree,           \* the tree handed to transformGfmAutolinkLiterals, as rewritten so far
    input,          \* the tree as it was handed in
    pairIndex,      \* the number of pattern table entries applied so far
    resetLastIndex, \* whether the walker restarts one past a rejected match
    treeNoGuard,    \* the tree as rewritten by the transform without findEmail's `!`/`@` check
    call,           \* the last replace-function call: handler, match object, captures
    result,         \* what that call returned
    split           \* the locals of a running splitUrl

vars == <<tree, input, pairIndex, resetLastIndex, treeNoGuard, call, result, split>>

-----------------------------------------------------------------------------
(* Character classes of the regular expressions and of micromark-util-character *)

LowerLetters ==
    {"a","b","c","d","e","f","g","h","i","j","k","l","m",
     "n","o","p","q","r","s","t","u","v","w","x","y","z"}

UpperLetters ==
    {"A","B","C","D","E","F","G","H","I","J","K","L","M",
     "N","O","P","Q","R","S","T","U","V","W","X","Y","Z"}

Digits == {"0","1","2","3","4","5","6","7","8","9"}

\* [a-zA-Z\d]
AlphaNumeric == LowerLetters \cup UpperLetters \cup Digits

\* \w
WordChars == AlphaNumeric \cup {"_"}

\* [-.\w+]
AtextChars == WordChars \cup {"-", ".", "+"}

\* [-\w]
LabelChars == WordChars \cup {"-"}

\* [-.\w]
DomainChars == WordChars \cup {"-", "."}

\* the characters [^ \t\r\n] excludes
RegexSpace == {" ", "\t", "\r", "\n"}

\* [!"&'),.:;<>?\]}]
TrailChars == {"!", "\"", "&", "'", ")", ",", ".", ":", ";", "<", ">", "?", "]", "}"}

\* [-\d_]
BadLabelEnd == Digits \cup {"-", "_"}

\* unicodeWhitespace: /\s/, on the characters of ASCII
WhitespaceChars == {" ", "\t", "\n", "\r", "\f"}

\* unicodePunctuation, on the characters of ASCII (the grave accent, which a
\* TLA+ string cannot hold, left out)
PunctuationChars ==
    {"!", "\"", "#", "$", "%", "&", "'", "(", ")", "*", "+", ",", "-", ".", "/",
     ":", ";", "<", "=", ">", "?", "@", "[", "\\", "]", "^", "_",
     "{", "|", "}", "~"}

\* what charCodeAt gives for an offset outside the string
NaN == "NaN"

-----------------------------------------------------------------------------
(* String helpers *)

\* s.slice(from, to) with 0-based offsets, 0 <= from, to <= s.length
Slice(s, from, to) == IF from >= to THEN <<>> ELSE SubSeq(s, from + 1, to)

\* s.slice(from)
SliceFrom(s, from) == Slice(s, from, Len(s))

\* s.charCodeAt(k), as the character
CharAt(s, k) == IF k >= 0 /\ k < Len(s) THEN s[k + 1] ELSE NaN

\* ccount(s, c)
RECURSIVE ccount(_, _)
ccount(s, c) ==
    IF s = <<>> THEN 0
    ELSE (IF Head(s) = c THEN 1 ELSE 0) + ccount(Tail(s), c)

\* s.indexOf(c), -1 when c is not in s
indexOf(s, c) ==
    IF \E k \in 1..Len(s) : s[k] = c
    THEN (CHOOSE k \in 1..Len(s) : s[k] = c /\ \A j \in 1..(k - 1) : s[j] # c) - 1
    ELSE -1

\* the offset one past the longest run of characters of S that starts at offset from
RECURSIVE RunEnd(_, _, _)
RunEnd(s, from, S) ==
    IF from < Len(s) /\ s[from + 1] \in S THEN RunEnd(s, from + 1, S) ELSE from

\* whether the characters of lit stand in s at offset from
StartsWithAt(s, from, lit) ==
    /\ from + Len(lit) <= Len(s)
    /\ \A k \in 1..Len(lit) : s[from + k] = lit[k]

\* s.split(sep), for a one-character separator
RECURSIVE SplitOn(_, _)
SplitOn(s, sep) ==
    LET k == indexOf(s, sep)
    IN  IF k = -1 THEN <<s>>
        ELSE <<Slice(s, 0, k)>> \o SplitOn(SliceFrom(s, k + 1), sep)

-----------------------------------------------------------------------------
(* splitUrl *)

\* /[!"&'),.:;<>?\]}]+$/.exec(url): the offset where the trailing run starts,
\* -1 when url does not end in a character of the class
RECURSIVE TrailExecFrom(_, _)
TrailExecFrom(url, k) ==
    IF k > 0 /\ url[k] \in TrailChars THEN TrailExecFrom(url, k - 1) ELSE k

TrailExec(url) ==
    IF url # <<>> /\ url[Len(url)] \in TrailChars
    THEN TrailExecFrom(url, Len(url))
    ELSE -1

\* the locals of splitUrl when its loop is first tested
SplitEnter(url) ==
    LET at == TrailExec(url)
        kept == Slice(url, 0, at)
        trail == SliceFrom(url, at)
    IN  [url |-> kept,
         trail |-> trail,
         closingParenIndex |-> indexOf(trail, ")"),
         openingParens |-> ccount(kept, "("),
         closingParens |-> ccount(kept, ")")]

\* a variant of the loop's condition with >= for >, which C6 must tell from it
SplitLoopTestAtLeast(l) ==
    l.closingParenIndex # -1 /\ l.openingParens >= l.closingParens

\* the condition of splitUrl's while loop
SplitLoopTest(l) ==
    l.closingParenIndex # -1 /\ l.openingParens > l.closingParens

\* a variant of the loop's body without closingParens++, which C9 must tell
\* from it
SplitLoopBodyNoCount(l) ==
    LET trail == SliceFrom(l.trail, l.closingParenIndex + 1)
    IN  [l EXCEPT !.url = l.url \o Slice(l.trail, 0, l.closingParenIndex + 1),
                  !.trail = trail,
                  !.closingParenIndex = indexOf(trail, ")")]

\* one run of the body of splitUrl's while loop
SplitLoopBody(l) ==
    LET trail == SliceFrom(l.trail, l.closingParenIndex + 1)
    IN  [l EXCEPT !.url = l.url \o Slice(l.trail, 0, l.closingParenIndex + 1),
                  !.trail = trail,
                  !.closingParenIndex = indexOf(trail, ")"),
                  !.closingParens = l.closingParens + 1]

RECURSIVE SplitLoop(_)
SplitLoop(l) == IF SplitLoopTest(l) THEN SplitLoop(SplitLoopBody(l)) ELSE l

\* splitUrl(url): [url, trail], where hasTrail is false for a trail of undefined
splitUrl(url) ==
    IF TrailExec(url) = -1
    THEN [kept |-> url, hasTrail |-> FALSE, trail |-> <<>>]
    ELSE LET l == SplitLoop(SplitEnter(url))
         IN  [kept |-> l.url, hasTrail |-> TRUE, trail |-> l.trail]

-----------------------------------------------------------------------------
(* isCorrectDomain and previous *)

\* a label that is not empty and holds an underscore or no letter or digit
BadDomainPart(part) ==
    /\ part # <<>>
    /\ \/ \E k \in 1..Len(part) : part[k] = "_"
       \/ ~ \E k \in 1..Len(part) : part[k] \in AlphaNumeric

isCorrectDomain(domain) ==
    LET parts == SplitOn(domain, ".")
    IN  ~ \/ Len(parts) < 2
          \/ \E k \in 1..Len(parts) : parts[k] = <<>>
          \/ BadDomainPart(parts[Len(parts)])
          \/ BadDomainPart(parts[Len(parts) - 1])

unicodeWhitespace(code) == code \in WhitespaceChars

unicodePunctuation(code) == code \in PunctuationChars

\* match is the match object: [index, input]
previous(match, email) ==
    LET code == CharAt(match.input, match.index - 1)
    IN  /\ \/ match.index = 0
           \/ unicodeWhitespace(code)
           \/ unicodePunctuation(code)
        /\ (~email \/ code # "/")

-----------------------------------------------------------------------------
(* The nodes of the tree and what a replace function returns *)

Text(value) == [type |-> "text", value |-> value]

Link(url, value) ==
    [type |-> "link", title |-> "null", url |-> url, children |-> <<Text(value)>>]

\* a replace function's `false`
False == [matched |-> FALSE, nodes |-> <<>>]

\* a replace function's node, or array of nodes
Replacement(nodes) == [matched |-> TRUE, nodes |-> nodes]

-----------------------------------------------------------------------------
(* The replace functions *)

\* Options.connectedInstance, here "lemmy.world"
connectedInstance == <<"l","e","m","m","y",".","w","o","r","l","d">>

\* a variant of findUrl that leaves the `http://` off the URL of a www match,
\* which C4 must tell from it
findUrlNoScheme(protocol, domain, path, match) ==
    LET www == protocol # <<>> /\ Head(protocol) \in {"w", "W"}
        domain2 == IF www THEN protocol \o domain ELSE domain
        protocol2 == IF www THEN <<>> ELSE protocol
        parts == splitUrl(domain2 \o path)
        link == Link(protocol2 \o parts.kept, protocol2 \o parts.kept)
    IN  IF ~previous(match, FALSE) THEN False
        ELSE IF ~isCorrectDomain(domain2) THEN False
        ELSE IF parts.kept = <<>> THEN False
        ELSE IF parts.hasTrail /\ parts.trail # <<>>
             THEN Replacement(<<link, Text(parts.trail)>>)
             ELSE Replacement(<<link>>)

\* a variant of findUrl that returns the link without the text trimmed off it,
\* which C7 must tell from it
findUrlNoTrail(protocol, domain, path, match) ==
    LET www == protocol # <<>> /\ Head(protocol) \in {"w", "W"}
        domain2 == IF www THEN protocol \o domain ELSE domain
        protocol2 == IF www THEN <<>> ELSE protocol
        prefix == IF www THEN <<"h","t","t","p",":","/","/">> ELSE <<>>
        parts == splitUrl(domain2 \o path)
        link == Link(prefix \o protocol2 \o parts.kept, protocol2 \o parts.kept)
    IN  IF ~previous(match, FALSE) THEN False
        ELSE IF ~isCorrectDomain(domain2) THEN False
        ELSE IF parts.kept = <<>> THEN False
        ELSE Replacement(<<link>>)

findUrl(protocol, domain, path, match) ==
    LET www == protocol # <<>> /\ Head(protocol) \in {"w", "W"}
        domain2 == IF www THEN protocol \o domain ELSE domain
        protocol2 == IF www THEN <<>> ELSE protocol
        prefix == IF www THEN <<"h","t","t","p",":","/","/">> ELSE <<>>
        parts == splitUrl(domain2 \o path)
        link == Link(prefix \o protocol2 \o parts.kept, protocol2 \o parts.kept)
    IN  IF ~previous(match, FALSE) THEN False
        ELSE IF ~isCorrectDomain(domain2) THEN False
        ELSE IF parts.kept = <<>> THEN False
        ELSE IF parts.hasTrail /\ parts.trail # <<>>
             THEN Replacement(<<link, Text(parts.trail)>>)
             ELSE Replacement(<<link>>)

\* the findCommunity that buildFindCommunity(instance, prefix) returns
findCommunity(instance, prefix, atext, label, match) ==
    LET communityName == SliceFrom(atext, Len(prefix))
        server == label
    IN  IF ~previous(match, TRUE) \/ label[Len(label)] \in BadLabelEnd THEN False
        ELSE Replacement(<<Link(
                <<"h","t","t","p","s",":","/","/">> \o instance \o <<"/","c","/">>
                    \o communityName \o <<"@">> \o server,
                prefix \o communityName \o <<"@">> \o server)>>)

\* a variant of findUser that displays the name without its prefix, which C3
\* must tell from it
findUserNoPrefix(instance, prefix, atext, label, match) ==
    LET userName == SliceFrom(atext, Len(prefix))
        server == label
    IN  IF ~previous(match, TRUE) \/ label[Len(label)] \in BadLabelEnd THEN False
        ELSE Replacement(<<Link(
                <<"h","t","t","p","s",":","/","/">> \o instance \o <<"/","u","/">>
                    \o userName \o <<"@">> \o server,
                userName \o <<"@">> \o server)>>)

\* the findUser that buildFindUser(instance, prefix) returns
findUser(instance, prefix, atext, label, match) ==
    LET userName == SliceFrom(atext, Len(prefix))
        server == label
    IN  IF ~previous(match, TRUE) \/ label[Len(label)] \in BadLabelEnd THEN False
        ELSE Replacement(<<Link(
                <<"h","t","t","p","s",":","/","/">> \o instance \o <<"/","u","/">>
                    \o userName \o <<"@">> \o server,
                prefix \o userName \o <<"@">> \o server)>>)

\* a variant of the check that looks for `!` only, which C2 must tell from it
EmailGuardBangOnly(match) ==
    LET code == CharAt(match.input, match.index - 1)
    IN  code = "!"

\* whether the character before the match is `!` (33) or `@` (64)
EmailGuard(match) ==
    LET code == CharAt(match.input, match.index - 1)
    IN  code = "!" \/ code = "@"

\* findEmail; checkGuard is true in the program, and false only in the variant
\* of the transform that leaves the `!`/`@` check out
findEmailWith(checkGuard, atext, label, match) ==
    IF ~previous(match, TRUE) \/ label[Len(label)] \in BadLabelEnd THEN False
    ELSE IF checkGuard /\ EmailGuard(match) THEN False
    ELSE Replacement(<<Link(<<"m","a","i","l","t","o",":">> \o atext \o <<"@">> \o label,
                            atext \o <<"@">> \o label)>>)

findEmail(atext, label, match) == findEmailWith(TRUE, atext, label, match)

-----------------------------------------------------------------------------
(* The regular expressions of the pattern table *)

\* what exec returns: found is false for null; g1, g2, g3 are the captures
NoMatch == [found |-> FALSE, index |-> -1, end |-> -1,
            g1 |-> <<>>, g2 |-> <<>>, g3 |-> <<>>]

UpperSeq ==
    <<"A","B","C","D","E","F","G","H","I","J","K","L","M",
      "N","O","P","Q","R","S","T","U","V","W","X","Y","Z">>

LowerSeq ==
    <<"a","b","c","d","e","f","g","h","i","j","k","l","m",
      "n","o","p","q","r","s","t","u","v","w","x","y","z">>

\* the case folding of the `i` flag
ToLower(c) ==
    IF c \in UpperLetters
    THEN LowerSeq[CHOOSE k \in 1..26 : UpperSeq[k] = c]
    ELSE c

\* whether lit (in lower case) stands in s at offset from, whatever the case
StartsWithAtNoCase(s, from, lit) ==
    /\ from + Len(lit) <= Len(s)
    /\ \A k \in 1..Len(lit) : ToLower(s[from + k]) = lit[k]

\* the offset one past the longest run of characters outside S that starts at from
RECURSIVE RunEndOutside(_, _, _)
RunEndOutside(s, from, S) ==
    IF from < Len(s) /\ s[from + 1] \notin S THEN RunEndOutside(s, from + 1, S) ELSE from

\* (https?:\/\/|www(?=\.)) at offset from: the offset one past it, -1 for no match
ProtocolEnd(s, from) ==
    IF StartsWithAtNoCase(s, from, <<"h","t","t","p","s",":","/","/">>) THEN from + 8
    ELSE IF StartsWithAtNoCase(s, from, <<"h","t","t","p",":","/","/">>) THEN from + 7
    ELSE IF StartsWithAtNoCase(s, from, <<"w","w","w">>) /\ CharAt(s, from + 3) = "."
         THEN from + 3
    ELSE -1

\* /(https?:\/\/|www(?=\.))([-.\w]+)([^ \t\r\n]*)/gi matched at offset from
UrlAt(s, from) ==
    LET pe == ProtocolEnd(s, from)
        de == RunEnd(s, pe, DomainChars)
        end == RunEndOutside(s, de, RegexSpace)
    IN  IF pe # -1 /\ de > pe
        THEN [found |-> TRUE, index |-> from, end |-> end,
              g1 |-> Slice(s, from, pe), g2 |-> Slice(s, pe, de), g3 |-> Slice(s, de, end)]
        ELSE NoMatch

\* (?:\.[-\w]+)* from offset from: the offset one past the last group
RECURSIVE LabelGroups(_, _)
LabelGroups(s, from) ==
    LET e == RunEnd(s, from + 1, LabelChars)
    IN  IF CharAt(s, from) = "." /\ e > from + 1 THEN LabelGroups(s, e) ELSE from

\* [-\w]+(?:\.[-\w]+)+ at offset from: the offset one past it, -1 for no match
LabelEnd(s, from) ==
    LET first == RunEnd(s, from, LabelChars)
        last == LabelGroups(s, first)
    IN  IF first > from /\ last > first THEN last ELSE -1

\* /(<prefix>[-.\w+]+)@([-\w]+(?:\.[-\w]+)+)/g matched at offset from
MentionAt(s, from, prefix) ==
    LET a == from + Len(prefix)
        ae == RunEnd(s, a, AtextChars)
        le == LabelEnd(s, ae + 1)
    IN  IF StartsWithAt(s, from, prefix) /\ ae > a /\ CharAt(s, ae) = "@" /\ le # -1
        THEN [found |-> TRUE, index |-> from, end |-> le,
              g1 |-> Slice(s, from, ae), g2 |-> Slice(s, ae + 1, le), g3 |-> <<>>]
        ELSE NoMatch

\* a variant of the list with the email expression before those of the
\* mentions, which C10 must tell from it
PatternTableEmailFirst ==
    << [find |-> "url",     prefix |-> <<>>,            replace |-> "findUrl"],
       [find |-> "mention", prefix |-> <<>>,            replace |-> "findEmail"],
       [find |-> "mention", prefix |-> <<"!">>,         replace |-> "findCommunityShebang"],
       [find |-> "mention", prefix |-> <<"/","c","/">>, replace |-> "findCommunityRelativeLink"],
       [find |-> "mention", prefix |-> <<"@">>,         replace |-> "findUser"],
       [find |-> "mention", prefix |-> <<"/","u","/">>, replace |-> "findUserRelativeLink"] >>

\* the list handed to findAndReplace: each regular expression, by its shape and
\* literal prefix, with its replace function
PatternTable ==
    << [find |-> "url",     prefix |-> <<>>,            replace |-> "findUrl"],
       [find |-> "mention", prefix |-> <<"!">>,         replace |-> "findCommunityShebang"],
       [find |-> "mention", prefix |-> <<"/","c","/">>, replace |-> "findCommunityRelativeLink"],
       [find |-> "mention", prefix |-> <<"@">>,         replace |-> "findUser"],
       [find |-> "mention", prefix |-> <<"/","u","/">>, replace |-> "findUserRelativeLink"],
       [find |-> "mention", prefix |-> <<>>,            replace |-> "findEmail"] >>

\* a variant of the option without linkReference, which C5 must tell from it
IgnoreLinkOnly == {"link"}

\* the node types findAndReplace is told to ignore
Ignore == {"link", "linkReference"}

\* the entry's regular expression matched at offset from
MatchAt(entry, s, from) ==
    IF entry.find = "url" THEN UrlAt(s, from) ELSE MentionAt(s, from, entry.prefix)

\* find.exec(s) with find.lastIndex = from: the leftmost match at or after from
RECURSIVE Exec(_, _, _)
Exec(entry, s, from) ==
    IF from >= Len(s) THEN NoMatch
    ELSE LET m == MatchAt(entry, s, from)
         IN  IF m.found THEN m ELSE Exec(entry, s, from + 1)

\* replace(...match, matchObject) for the entry's replace function
Replace(entry, m, match, checkGuard) ==
    CASE entry.replace = "findUrl" -> findUrl(m.g1, m.g2, m.g3, match)
      [] entry.replace \in {"findCommunityShebang", "findCommunityRelativeLink"} ->
            findCommunity(connectedInstance, entry.prefix, m.g1, m.g2, match)
      [] entry.replace \in {"findUser", "findUserRelativeLink"} ->
            findUser(connectedInstance, entry.prefix, m.g1, m.g2, match)
      [] entry.replace = "findEmail" -> findEmailWith(checkGuard, m.g1, m.g2, match)

-----------------------------------------------------------------------------
(* findAndReplace (mdast-util-find-and-replace), as the transform uses it *)

\* the loop over the matches in one text node: lastIndex is where the next exec
\* starts, start the end of the last accepted match, nodes the nodes made so far
RECURSIVE ReplaceLoop(_, _, _, _, _, _, _, _)
ReplaceLoop(node, entry, reset, checkGuard, lastIndex, start, nodes, change) ==
    LET value == node.value
        m == Exec(entry, value, lastIndex)
        r == Replace(entry, m, [index |-> m.index, input |-> value], checkGuard)
    IN  IF ~m.found
        THEN IF change
             THEN nodes \o (IF start < Len(value)
                            THEN <<Text(SliceFrom(value, start))>> ELSE <<>>)
             ELSE <<node>>
        ELSE IF ~r.matched
        THEN ReplaceLoop(node, entry, reset, checkGuard,
                         IF reset THEN m.index + 1 ELSE m.end, start, nodes, change)
        ELSE ReplaceLoop(node, entry, reset, checkGuard, m.end, m.end,
                         nodes \o (IF start # m.index
                                   THEN <<Text(Slice(value, start, m.index))>> ELSE <<>>)
                               \o r.nodes,
                         TRUE)

\* one walk over the children of a node: a text node under no ignored node is
\* replaced by what the loop makes of it, the nodes made are not visited again
RECURSIVE WalkChildren(_, _, _, _, _)
WalkChildren(children, ignored, entry, reset, checkGuard) ==
    IF children = <<>> THEN <<>>
    ELSE LET node == Head(children)
             here == IF node.type = "text"
                     THEN IF ignored THEN <<node>>
                          ELSE ReplaceLoop(node, entry, reset, checkGuard, 0, 0, <<>>, FALSE)
                     ELSE <<[node EXCEPT !.children =
                               WalkChildren(node.children, ignored \/ node.type \in Ignore,
                                            entry, reset, checkGuard)]>>
         IN  here \o WalkChildren(Tail(children), ignored, entry, reset, checkGuard)

\* findAndReplace's visit of the whole tree for one entry of the list
VisitFor(root, entry, reset, checkGuard) ==
    [root EXCEPT !.children =
        WalkChildren(root.children, root.type \in Ignore, entry, reset, checkGuard)]

-----------------------------------------------------------------------------
(* The inputs *)

\* the most pieces in a text handed to the transform
MaxTokens == 3

\* the most pieces in a text of mentions handed to the transform
MaxMentionTokens == 4

\* the most pieces in a text of mentions that reach over each other
MaxOverlapTokens == 3

\* the most pieces in a text that stands inside a link, link reference or emphasis
MaxWrappedTokens == 2

\* the most pieces in the input of a single replace-function call
MaxCallTokens == 3

\* the most characters in a string handed to splitUrl
MaxSplitLen == 5

\* the pieces of the texts handed to the transform
Tokens ==
    { <<"a">>, <<"1">>, <<".">>, <<"@">>, <<"!">>, <<"/">>, <<" ">>,
      <<"a","@","b",".","c">>,
      <<"/","c","/">>, <<"/","u","/">>,
      <<"w","w","w",".","a",".","b">>,
      <<"h","t","t","p",":","/","/","a",".","b">> }

\* the pieces of the longer texts of mentions
MentionTokens ==
    { <<"a">>, <<".">>, <<"@">>, <<"!">>,
      <<"a","@","b",".","c">>,
      <<"/","c","/">>,
      <<"w","w","w",".","a",".","b">> }

\* the pieces of the texts in which one match of the user expression reaches
\* over the start of another, as in `a@.@b.c@b.c`
OverlapTokens ==
    { <<"a">>, <<"@",".","@","b",".","c">>, <<"@","b",".","c">> }

\* the pieces of the inputs of single replace-function calls
CallTokens ==
    Tokens \cup
    { <<"(">>, <<")">>, <<",">>, <<"-">>, <<"_">>, <<"+">>,
      <<"W","w","W",".","a",".","b">>,
      <<"h","t","t","p","s",":","/","/","a",".","b">> }

\* the characters of the strings handed to splitUrl
SplitChars == {"a", "(", ")", ".", "!"}

\* the strings of at most n pieces
RECURSIVE TextsOf(_, _)
TextsOf(tokens, n) ==
    IF n = 0 THEN {<<>>}
    ELSE LET shorter == TextsOf(tokens, n - 1)
         IN  shorter \cup {t \o token : t \in shorter, token \in tokens}

Paragraph(children) == [type |-> "paragraph", children |-> children]

\* a link, link reference or emphasis of the input, around one text
Wrapped(type, t) ==
    CASE type = "link" ->
            [type |-> "link", title |-> "null", url |-> <<"u">>, children |-> <<Text(t)>>]
      [] type = "linkReference" ->
            [type |-> "linkReference", identifier |-> <<"u">>, children |-> <<Text(t)>>]
      [] type = "emphasis" ->
            [type |-> "emphasis", children |-> <<Text(t)>>]

\* a paragraph that holds one text node, bare or wrapped
InputTrees ==
    {Paragraph(<<Text(t)>>) :
        t \in TextsOf(Tokens, MaxTokens) \cup TextsOf(MentionTokens, MaxMentionTokens)
                \cup TextsOf(OverlapTokens, MaxOverlapTokens)}
    \cup {Paragraph(<<Wrapped(type, t)>>) :
            type \in {"link", "linkReference", "emphasis"},
            t \in TextsOf(Tokens, MaxWrappedTokens)}

\* the values of the variables a specification does not use
NoTree == Paragraph(<<>>)

NoCall == [handler |-> "none"]

NoSplit == [pc |-> "none"]

NoLocals == [url |-> <<>>, trail |-> <<>>, closingParenIndex |-> -1,
             openingParens |-> 0, closingParens |-> 0]

NoReturn == [kept |-> <<>>, hasTrail |-> FALSE, trail |-> <<>>]

-----------------------------------------------------------------------------
(* transformGfmAutolinkLiterals: findAndReplace's loop over the pattern table *)

Init ==
    /\ input \in InputTrees
    /\ tree = input
    /\ pairIndex = 0
    /\ resetLastIndex \in BOOLEAN
    /\ treeNoGuard = NoTree
    /\ call = NoCall
    /\ result = False
    /\ split = NoSplit

\* findAndReplace visits the tree once for each entry of the list, in order
\* [/(https?:\/\/|www(?=\.))([-.\w]+)([^ \t\r\n]*)/gi, findUrl]
VisitUrl ==
    /\ pairIndex = 0
    /\ tree' = VisitFor(tree, PatternTable[1], resetLastIndex, TRUE)
    /\ pairIndex' = 1
    /\ UNCHANGED <<input, resetLastIndex, treeNoGuard, call, result, split>>

\* [/(![-.\w+]+)@([-\w]+(?:\.[-\w]+)+)/g, findCommunityShebang]
VisitCommunityShebang ==
    /\ pairIndex = 1
    /\ tree' = VisitFor(tree, PatternTable[2], resetLastIndex, TRUE)
    /\ pairIndex' = 2
    /\ UNCHANGED <<input, resetLastIndex, treeNoGuard, call, result, split>>

\* [/(\/c\/[-.\w+]+)@([-\w]+(?:\.[-\w]+)+)/g, findCommunityRelativeLink]
VisitCommunityRelativeLink ==
    /\ pairIndex = 2
    /\ tree' = VisitFor(tree, PatternTable[3], resetLastIndex, TRUE)
    /\ pairIndex' = 3
    /\ UNCHANGED <<input, resetLastIndex, treeNoGuard, call, result, split>>

\* [/(@[-.\w+]+)@([-\w]+(?:\.[-\w]+)+)/g, findUser]
VisitUser ==
    /\ pairIndex = 3
    /\ tree' = VisitFor(tree, PatternTable[4], resetLastIndex, TRUE)
    /\ pairIndex' = 4
    /\ UNCHANGED <<input, resetLastIndex, treeNoGuard, call, result, split>>

\* [/(\/u\/[-.\w+]+)@([-\w]+(?:\.[-\w]+)+)/g, findUserRelativeLink]
VisitUserRelativeLink ==
    /\ pairIndex = 4
    /\ tree' = VisitFor(tree, PatternTable[5], resetLastIndex, TRUE)
    /\ pairIndex' = 5
    /\ UNCHANGED <<input, resetLastIndex, treeNoGuard, call, result, split>>

\* [/([-.\w+]+)@([-\w]+(?:\.[-\w]+)+)/g, findEmail]
VisitEmail ==
    /\ pairIndex = 5
    /\ tree' = VisitFor(tree, PatternTable[6], resetLastIndex, TRUE)
    /\ pairIndex' = 6
    /\ UNCHANGED <<input, resetLastIndex, treeNoGuard, call, result, split>>

Next ==
    \/ VisitUrl
    \/ VisitCommunityShebang
    \/ VisitCommunityRelativeLink
    \/ VisitUser
    \/ VisitUserRelativeLink
    \/ VisitEmail

Spec == Init /\ [][Next]_vars

-----------------------------------------------------------------------------
(* The transform beside the transform whose findEmail leaves the `!`/`@` check out *)

InitBoth ==
    /\ input \in InputTrees
    /\ tree = input
    /\ treeNoGuard = input
    /\ pairIndex = 0
    /\ resetLastIndex \in BOOLEAN
    /\ call = NoCall
    /\ result = False
    /\ split = NoSplit

\* entry k of the list applied to both trees: with findEmail's `!`/`@` check
\* (TRUE) and without it (FALSE)
VisitBoth(k) ==
    [checkGuard \in BOOLEAN |->
        VisitFor(IF checkGuard THEN tree ELSE treeNoGuard, PatternTable[k],
                 resetLastIndex, checkGuard)]

VisitUrlBoth ==
    /\ pairIndex = 0
    /\ \E visited \in {VisitBoth(1)} :
        /\ tree' = visited[TRUE]
        /\ treeNoGuard' = visited[FALSE]
    /\ pairIndex' = 1
    /\ UNCHANGED <<input, resetLastIndex, call, result, split>>

VisitCommunityShebangBoth ==
    /\ pairIndex = 1
    /\ \E visited \in {VisitBoth(2)} :
        /\ tree' = visited[TRUE]
        /\ treeNoGuard' = visited[FALSE]
    /\ pairIndex' = 2
    /\ UNCHANGED <<input, resetLastIndex, call, result, split>>

VisitCommunityRelativeLinkBoth ==
    /\ pairIndex = 2
    /\ \E visited \in {VisitBoth(3)} :
        /\ tree' = visited[TRUE]
        /\ treeNoGuard' = visited[FALSE]
    /\ pairIndex' = 3
    /\ UNCHANGED <<input, resetLastIndex, call, result, split>>

VisitUserBoth ==
    /\ pairIndex = 3
    /\ \E visited \in {VisitBoth(4)} :
        /\ tree' = visited[TRUE]
        /\ treeNoGuard' = visited[FALSE]
    /\ pairIndex' = 4
    /\ UNCHANGED <<input, resetLastIndex, call, result, split>>

VisitUserRelativeLinkBoth ==
    /\ pairIndex = 4
    /\ \E visited \in {VisitBoth(5)} :
        /\ tree' = visited[TRUE]
        /\ treeNoGuard' = visited[FALSE]
    /\ pairIndex' = 5
    /\ UNCHANGED <<input, resetLastIndex, call, result, split>>

VisitEmailBoth ==
    /\ pairIndex = 5
    /\ \E visited \in {VisitBoth(6)} :
        /\ tree' = visited[TRUE]
        /\ treeNoGuard' = visited[FALSE]
    /\ pairIndex' = 6
    /\ UNCHANGED <<input, resetLastIndex, call, result, split>>

NextBoth ==
    \/ VisitUrlBoth
    \/ VisitCommunityShebangBoth
    \/ VisitCommunityRelativeLinkBoth
    \/ VisitUserBoth
    \/ VisitUserRelativeLinkBoth
    \/ VisitEmailBoth

SpecBoth == InitBoth /\ [][NextBoth]_vars

-----------------------------------------------------------------------------
(* Single calls of the replace functions, each on a match of its expression *)

InitCalls ==
    /\ input \in {Paragraph(<<Text(t)>>) : t \in TextsOf(CallTokens, MaxCallTokens)}
    /\ tree = input
    /\ pairIndex = 0
    /\ resetLastIndex = TRUE
    /\ treeNoGuard = NoTree
    /\ call = NoCall
    /\ result = False
    /\ split = NoSplit

\* the call of entry k's replace function on the match of its expression at
\* offset from of the text
CallOf(k, from) ==
    LET value == input.children[1].value
        entry == PatternTable[k]
        m == MatchAt(entry, value, from)
    IN  [handler |-> entry.replace, prefix |-> entry.prefix, found |-> m.found,
         g1 |-> m.g1, g2 |-> m.g2, g3 |-> m.g3, end |-> m.end,
         match |-> [index |-> m.index, input |-> value]]

\* the offsets of the text
Offsets == 0..(Len(input.children[1].value) - 1)

CallFindUrl ==
    /\ call = NoCall
    /\ \E from \in Offsets :
        /\ CallOf(1, from).found
        /\ call' = CallOf(1, from)
        /\ result' = findUrl(call'.g1, call'.g2, call'.g3, call'.match)
    /\ UNCHANGED <<tree, input, pairIndex, resetLastIndex, treeNoGuard, split>>

CallFindCommunityShebang ==
    /\ call = NoCall
    /\ \E from \in Offsets :
        /\ CallOf(2, from).found
        /\ call' = CallOf(2, from)
        /\ result' = findCommunity(connectedInstance, call'.prefix, call'.g1, call'.g2, call'.match)
    /\ UNCHANGED <<tree, input, pairIndex, resetLastIndex, treeNoGuard, split>>

CallFindCommunityRelativeLink ==
    /\ call = NoCall
    /\ \E from \in Offsets :
        /\ CallOf(3, from).found
        /\ call' = CallOf(3, from)
        /\ result' = findCommunity(connectedInstance, call'.prefix, call'.g1, call'.g2, call'.match)
    /\ UNCHANGED <<tree, input, pairIndex, resetLastIndex, treeNoGuard, split>>

CallFindUser ==
    /\ call = NoCall
    /\ \E from \in Offsets :
        /\ CallOf(4, from).found
        /\ call' = CallOf(4, from)
        /\ result' = findUser(connectedInstance, call'.prefix, call'.g1, call'.g2, call'.match)
    /\ UNCHANGED <<tree, input, pairIndex, resetLastIndex, treeNoGuard, split>>

CallFindUserRelativeLink ==
    /\ call = NoCall
    /\ \E from \in Offsets :
        /\ CallOf(5, from).found
        /\ call' = CallOf(5, from)
        /\ result' = findUser(connectedInstance, call'.prefix, call'.g1, call'.g2, call'.match)
    /\ UNCHANGED <<tree, input, pairIndex, resetLastIndex, treeNoGuard, split>>

CallFindEmail ==
    /\ call = NoCall
    /\ \E from \in Offsets :
        /\ CallOf(6, from).found
        /\ call' = CallOf(6, from)
        /\ result' = findEmail(call'.g1, call'.g2, call'.match)
    /\ UNCHANGED <<tree, input, pairIndex, resetLastIndex, treeNoGuard, split>>

NextCalls ==
    \/ CallFindUrl
    \/ CallFindCommunityShebang
    \/ CallFindCommunityRelativeLink
    \/ CallFindUser
    \/ CallFindUserRelativeLink
    \/ CallFindEmail

SpecCalls == InitCalls /\ [][NextCalls]_vars

-----------------------------------------------------------------------------
(* splitUrl, one step of its loop at a time *)

InitSplit ==
    /\ split \in {[pc |-> "enter", arg |-> s, locals |-> NoLocals, ret |-> NoReturn] :
                     s \in UNION {[1..n -> SplitChars] : n \in 0..MaxSplitLen}}
    /\ input = NoTree
    /\ tree = NoTree
    /\ pairIndex = 0
    /\ resetLastIndex = TRUE
    /\ treeNoGuard = NoTree
    /\ call = NoCall
    /\ result = False

\* the exec found no trailing run: return [url, undefined]
SplitReturnWhole ==
    /\ split.pc = "enter"
    /\ TrailExec(split.arg) = -1
    /\ split' = [split EXCEPT !.pc = "returned",
                              !.ret = [kept |-> split.arg, hasTrail |-> FALSE, trail |-> <<>>]]
    /\ UNCHANGED <<tree, input, pairIndex, resetLastIndex, treeNoGuard, call, result>>

\* the exec found the trailing run: set the locals up
SplitTrim ==
    /\ split.pc = "enter"
    /\ TrailExec(split.arg) # -1
    /\ split' = [split EXCEPT !.pc = "loop", !.locals = SplitEnter(split.arg)]
    /\ UNCHANGED <<tree, input, pairIndex, resetLastIndex, treeNoGuard, call, result>>

\* one run of the body of the while loop
SplitIterate ==
    /\ split.pc = "loop"
    /\ SplitLoopTest(split.locals)
    /\ split' = [split EXCEPT !.locals = SplitLoopBody(split.locals)]
    /\ UNCHANGED <<tree, input, pairIndex, resetLastIndex, treeNoGuard, call, result>>

\* the loop is left: return [url, trail]
SplitReturn ==
    /\ split.pc = "loop"
    /\ ~SplitLoopTest(split.locals)
    /\ split' = [split EXCEPT !.pc = "returned",
                              !.ret = [kept |-> split.locals.url, hasTrail |-> TRUE,
                                       trail |-> split.locals.trail]]
    /\ UNCHANGED <<tree, input, pairIndex, resetLastIndex, treeNoGuard, call, result>>

NextSplit ==
    \/ SplitReturnWhole
    \/ SplitTrim
    \/ SplitIterate
    \/ SplitReturn

SpecSplit == InitSplit /\ [][NextSplit]_vars

-----------------------------------------------------------------------------
(* What the properties read off a tree *)

\* the types of the nodes that are links already
LinkTypes == {"link", "linkReference"}

\* the text of a list of nodes, read left to right
RECURSIVE ChildrenText(_)
ChildrenText(children) ==
    IF children = <<>> THEN <<>>
    ELSE (IF Head(children).type = "text"
          THEN Head(children).value
          ELSE ChildrenText(Head(children).children))
         \o ChildrenText(Tail(children))

\* the links among the nodes and under their emphasis, each with the offsets of
\* the text it covers; offset is the offset of the first node
RECURSIVE LinkSpans(_, _)
LinkSpans(children, offset) ==
    IF children = <<>> THEN {}
    ELSE LET node == Head(children)
             len == Len(ChildrenText(<<node>>))
         IN  (IF node.type = "link"
              THEN {[start |-> offset, end |-> offset + len, url |-> node.url,
                     text |-> ChildrenText(node.children)]}
              ELSE IF node.type \in {"text", "linkReference"} THEN {}
              ELSE LinkSpans(node.children, offset))
             \cup LinkSpans(Tail(children), offset + len)

\* no link stands under a link or link reference
RECURSIVE NoLinkInLink(_, _)
NoLinkInLink(children, inside) ==
    \A k \in 1..Len(children) :
        \/ children[k].type = "text"
        \/ /\ ~(inside /\ children[k].type = "link")
           /\ NoLinkInLink(children[k].children, inside \/ children[k].type \in LinkTypes)

\* the text handed to the transform
Original == ChildrenText(input.children)

\* the links the transform made
MadeLinks == LinkSpans(tree.children, 0) \ LinkSpans(input.children, 0)

\* offset at is the start of s or follows whitespace or punctuation other than `/`
ValidStart(s, at) ==
    \/ at = 0
    \/ s[at] \in (WhitespaceChars \cup PunctuationChars) \ {"/"}

MentionEntries == {2, 3, 4, 5}

\* the URL of the link for a mention of entry k whose name@server is nameAtServer
MentionUrl(k, nameAtServer) ==
    <<"h","t","t","p","s",":","/","/">> \o connectedInstance
        \o (IF k \in {2, 3} THEN <<"/","c","/">> ELSE <<"/","u","/">>) \o nameAtServer

IsMailto(url) == StartsWithAt(url, 0, <<"m","a","i","l","t","o",":">>)

-----------------------------------------------------------------------------
(* C1 *)

\* C1: no link the transform made covers text whose preceding character, in
\* the text handed in, is a letter or a digit.
C1_BoundaryRejection ==
    \A sp \in MadeLinks : sp.start = 0 \/ Original[sp.start] \notin AlphaNumeric

-----------------------------------------------------------------------------
(* C2 *)

\* a link of links, made for other text, covers some character of offsets
\* from..(end - 1)
CoveredByOtherLink(links, from, end) ==
    \E sp \in links :
        sp.start < end /\ sp.end > from /\ ~(sp.start = from /\ sp.end = end)

\* an earlier match of entry k's expression in text reaches over offset from
OverlappedByEarlierMatch(text, k, from) ==
    \E j \in 0..(from - 1) : MentionAt(text, j, PatternTable[k].prefix).end > from

\* among links is the link for the mention m of entry k in text
LinkedAsMention(links, text, k, m) ==
    \E sp \in links :
        /\ sp.start = m.index /\ sp.end = m.end
        /\ sp.url = MentionUrl(k, Slice(text, m.index + Len(PatternTable[k].prefix), m.end))
        /\ sp.text = Slice(text, m.index, m.end)

\* no mailto link of links covers exactly the name@server of the mention m
NoMailtoForSuffix(links, k, m) ==
    ~ \E sp \in links :
        /\ sp.start = m.index + Len(PatternTable[k].prefix)
        /\ sp.end = m.end
        /\ IsMailto(sp.url)

\* C2 as stated: no mention-shaped substring gets a mailto link for its
\* name@server, and after the transform each one that starts at a valid
\* boundary with a valid server is the community or user link.
C2_PrecedenceAsStated ==
    LET text == Original
        links == MadeLinks
    IN  input.children[1].type \notin LinkTypes =>
            \A k \in MentionEntries : \A from \in 0..(Len(text) - 1) :
                LET m == MentionAt(text, from, PatternTable[k].prefix)
                IN  m.found =>
                    /\ NoMailtoForSuffix(links, k, m)
                    /\ (pairIndex = 6 /\ ValidStart(text, from)
                            /\ text[m.end] \notin BadLabelEnd)
                        => LinkedAsMention(links, text, k, m)

\* C2, amended: no mention-shaped substring gets a mailto link for its
\* name@server, and after the transform each one that starts at a valid
\* boundary with a valid server is the community or user link, unless a link
\* made for another match covers part of it or an earlier match of the same
\* expression reaches over its start.
C2_Precedence ==
    LET text == Original
        links == MadeLinks
    IN  input.children[1].type \notin LinkTypes =>
            \A k \in MentionEntries : \A from \in 0..(Len(text) - 1) :
                LET m == MentionAt(text, from, PatternTable[k].prefix)
                IN  m.found =>
                    /\ NoMailtoForSuffix(links, k, m)
                    /\ (pairIndex = 6 /\ ValidStart(text, from)
                            /\ text[m.end] \notin BadLabelEnd
                            /\ ~CoveredByOtherLink(links, from, m.end)
                            /\ ~OverlappedByEarlierMatch(text, k, from))
                        => LinkedAsMention(links, text, k, m)

\* the transform has run on `.!a@b.c`, `.@a@b.c`, `./c/a@b.c` or `./u/a@b.c`
\* and the mention is its link
C2_Witness ==
    /\ pairIndex = 6
    /\ \E k \in MentionEntries :
        /\ Original = <<".">> \o PatternTable[k].prefix \o <<"a","@","b",".","c">>
        /\ LinkedAsMention(MadeLinks, Original, k,
                           MentionAt(Original, 1, PatternTable[k].prefix))

-----------------------------------------------------------------------------
(* C3 *)

\* the text the call's expression matched
MatchedText == Slice(call.match.input, call.match.index, call.end)

\* the character before the call's match, NaN at the start of the text
Before == CharAt(call.match.input, call.match.index - 1)

\* the name@server of the mention the call's expression matched
NameAtServer ==
    Slice(call.match.input, call.match.index + Len(call.prefix), call.end)

\* C3: a call of a community or user handler returns no match when the
\* character before the match is there and is neither whitespace nor
\* punctuation, or is `/`, or when the server ends in `-`, a digit or `_`;
\* otherwise it returns one link to https://lemmy.world/c/name@server
\* (community) or https://lemmy.world/u/name@server (user) that displays the
\* matched text.
C3_MentionHandlers ==
    call.handler \in {"findCommunityShebang", "findCommunityRelativeLink",
                      "findUser", "findUserRelativeLink"} =>
        LET rejected ==
                \/ /\ call.match.index # 0
                   /\ Before \notin WhitespaceChars \cup PunctuationChars
                \/ Before = "/"
                \/ MatchedText[Len(MatchedText)] \in {"-", "_"} \cup Digits
            kind == IF call.handler \in {"findUser", "findUserRelativeLink"}
                    THEN <<"/","u","/">> ELSE <<"/","c","/">>
        IN  IF rejected THEN result = False
            ELSE /\ result.matched
                 /\ Len(result.nodes) = 1
                 /\ result.nodes[1].type = "link"
                 /\ result.nodes[1].url =
                        <<"h","t","t","p","s",":","/","/","l","e","m","m","y",".",
                          "w","o","r","l","d">> \o kind \o NameAtServer
                 /\ result.nodes[1].children = <<Text(MatchedText)>>

\* findUser was called on the `@a@b.c` of ` @a@b.c` and returned the link to
\* https://lemmy.world/u/a@b.c
C3_Witness ==
    /\ call.handler = "findUser"
    /\ call.match.input = <<" ","@","a","@","b",".","c">>
    /\ call.match.index = 1
    /\ result.matched
    /\ result.nodes[1].url =
            <<"h","t","t","p","s",":","/","/","l","e","m","m","y",".","w","o","r","l","d",
              "/","u","/","a","@","b",".","c">>

-----------------------------------------------------------------------------
(* C4 *)

\* C4: when findUrl accepts a match, the link displays the protocol and the
\* kept part for an http(s):// match and the kept part, `www` included, for a
\* www match; its URL is the display text, after `http://` for a www match; a
\* trimmed remainder that is not empty follows the link as a text node and
\* nothing else does; the display text and the remainder make the matched text.
C4_UrlHandler ==
    (call.handler = "findUrl" /\ result.matched) =>
        LET www == ToLower(call.g1[1]) = "w"
            parts == splitUrl(IF www THEN call.g1 \o call.g2 \o call.g3
                                     ELSE call.g2 \o call.g3)
            link == result.nodes[1]
            display == ChildrenText(link.children)
            remainder == ChildrenText(Tail(result.nodes))
        IN  /\ link.type = "link"
            /\ Len(link.children) = 1
            /\ display = (IF www THEN parts.kept ELSE call.g1 \o parts.kept)
            /\ link.url = (IF www THEN <<"h","t","t","p",":","/","/">> \o display
                                  ELSE display)
            /\ IF parts.hasTrail /\ parts.trail # <<>>
               THEN Tail(result.nodes) = <<Text(parts.trail)>>
               ELSE Tail(result.nodes) = <<>>
            /\ display \o remainder = MatchedText

\* findUrl was called on the `www.a.b.` of `www.a.b/.` and returned the link to
\* http://www.a.b/ and the text `.`
C4_Witness ==
    /\ call.handler = "findUrl"
    /\ call.match.input = <<"w","w","w",".","a",".","b","/",".">>
    /\ result.matched
    /\ Len(result.nodes) = 2
    /\ result.nodes[1].url = <<"h","t","t","p",":","/","/","w","w","w",".","a",".","b","/">>
    /\ result.nodes[2] = Text(<<".">>)

-----------------------------------------------------------------------------
(* C5 *)

\* C5: a link or link reference of the input stays as it was, no link stands
\* under a link or link reference, and a link, once in the tree, stays in it
\* over the same text with the same URL and display text.
C5_LinkedTextNotRescanned ==
    /\ [](/\ input.children[1].type \in LinkTypes => tree = input
          /\ NoLinkInLink(tree.children, FALSE))
    /\ [][LinkSpans(tree.children, 0) \subseteq LinkSpans(tree'.children, 0)]_vars

\* the transform has run on a link reference whose text is `a@b.c`
C5_Witness ==
    /\ pairIndex = 6
    /\ input.children[1].type = "linkReference"
    /\ Original = <<"a","@","b",".","c">>
    /\ tree = input

-----------------------------------------------------------------------------
(* C6 *)

\* C6 as stated: the url splitUrl returns has no more `)` than `(`.
C6_KeptParensAsStated ==
    split.pc = "returned" => ccount(split.ret.kept, ")") <= ccount(split.ret.kept, "(")

\* C6, amended: the url splitUrl returns has no more `)` than `(` when it ends
\* in `)`, and so does the url at each test of the loop once the loop has moved
\* a `)` back to it.
C6_KeptParens ==
    /\ (split.pc = "returned" /\ split.ret.kept # <<>>
            /\ split.ret.kept[Len(split.ret.kept)] = ")")
        => ccount(split.ret.kept, ")") <= ccount(split.ret.kept, "(")
    /\ (split.pc = "loop" /\ split.locals.url # <<>>
            /\ split.locals.url[Len(split.locals.url)] = ")")
        => ccount(split.locals.url, ")") <= ccount(split.locals.url, "(")

\* splitUrl has returned `(a)` and `).` for `(a)).`
C6_Witness ==
    /\ split.pc = "returned"
    /\ split.arg = <<"(","a",")",")",".">>
    /\ split.ret.kept = <<"(","a",")">>
    /\ split.ret.trail = <<")",".">>

-----------------------------------------------------------------------------
(* C7 *)

\* C7: after each visit, the texts and display texts of the tree, read left to
\* right, are the text handed in.
C7_TextPreserved == ChildrenText(tree.children) = Original

\* the transform has run on `www.a.b! ` or `http://a.b! ` and left the link,
\* the exclamation mark trimmed off it and the space
C7_Witness ==
    /\ pairIndex = 6
    /\ Len(tree.children) = 3
    /\ tree.children[1].type = "link"
    /\ tree.children[2] = Text(<<"!">>)
    /\ tree.children[3] = Text(<<" ">>)

-----------------------------------------------------------------------------
(* C9 *)

\* the offset in s one past its n-th `)`, counting from offset from
RECURSIVE PastNthParen(_, _, _)
PastNthParen(s, from, n) ==
    IF n = 0 THEN from
    ELSE PastNthParen(s, from + 1, IF s[from + 1] = ")" THEN n - 1 ELSE n)

\* the least offset at which s holds only characters of TrailChars to its end
TrailStart(s) ==
    CHOOSE at \in 0..Len(s) :
        /\ \A k \in (at + 1)..Len(s) : s[k] \in TrailChars
        /\ at = 0 \/ s[at] \notin TrailChars

\* the splitter that trims the longest trailing run of TrailChars off s and
\* gives back the run up to and including each `)` of it for which what is
\* kept before it has more `(` than `)`
ContainsSplit(s) ==
    LET at == TrailStart(s)
        open == ccount(Slice(s, 0, at), "(") - ccount(Slice(s, 0, at), ")")
        inRun == ccount(SliceFrom(s, at), ")")
        back == IF open <= 0 THEN 0 ELSE IF open < inRun THEN open ELSE inRun
        cut == PastNthParen(s, at, back)
    IN  [kept |-> Slice(s, 0, cut), hasTrail |-> at < Len(s), trail |-> SliceFrom(s, cut)]

\* the splitter that trims the longest trailing run of TrailChars off s and,
\* while the run starts with `)` and what is kept has more `(` than `)`, gives
\* that `)` back
RECURSIVE StartsWithLoop(_, _)
StartsWithLoop(kept, trail) ==
    IF trail # <<>> /\ Head(trail) = ")" /\ ccount(kept, "(") > ccount(kept, ")")
    THEN StartsWithLoop(Append(kept, ")"), Tail(trail))
    ELSE [kept |-> kept, hasTrail |-> TRUE, trail |-> trail]

StartsWithSplit(s) ==
    LET at == TrailStart(s)
    IN  IF at = Len(s) THEN [kept |-> s, hasTrail |-> FALSE, trail |-> <<>>]
        ELSE StartsWithLoop(Slice(s, 0, at), SliceFrom(s, at))

\* C9 as stated: splitUrl returns what the splitter that looks for `)` at the
\* start of the trimmed run returns, and each run of the loop's body shortens
\* the trimmed run.
C9_SplitterAsStated ==
    split.pc = "returned" => split.ret = StartsWithSplit(split.arg)

\* C9, amended: splitUrl returns what the splitter that looks for `)` anywhere
\* in the trimmed run returns, which gives back the run up to and including
\* that `)`; each run of the loop's body shortens the trimmed run and adds
\* what it takes off to the url.
C9_Splitter ==
    /\ [](split.pc = "returned" => split.ret = ContainsSplit(split.arg))
    /\ [][SplitIterate =>
            /\ Len(split'.locals.trail) < Len(split.locals.trail)
            /\ split'.locals.url \o split'.locals.trail
                    = split.locals.url \o split.locals.trail]_vars

\* splitUrl has returned `(a.)` and the empty trail for `(a.)`
C9_Witness ==
    /\ split.pc = "returned"
    /\ split.arg = <<"(","a",".",")">>
    /\ split.ret = [kept |-> <<"(","a",".",")">>, hasTrail |-> TRUE, trail |-> <<>>]

-----------------------------------------------------------------------------
(* C10 *)

\* each `!` or `@` of s that an email-shaped match with a valid server follows
\* stands at the start of s or after whitespace or punctuation other than `/`
GuardedPrefixesAtBoundary(s) ==
    \A at \in 0..(Len(s) - 1) :
        LET m == MentionAt(s, at + 1, <<>>)
        IN  (s[at + 1] \in {"!", "@"} /\ m.found /\ s[m.end] \notin BadLabelEnd)
                => ValidStart(s, at)

=============================================================================
